---- MODULE Spec2Model ----
(***************************************************************************)
(* A model of Intent (src/src/components/intent.ts): the registration      *)
(* guard, the join-guarantee protocol, the permission-escalation protocol  *)
(* and the action facade built from them.                                  *)
(*                                                                         *)
(* Every transport call is a suspension point: the action that handles a   *)
(* response runs the continuation of the code up to the next transport     *)
(* call (or to the settlement of the invocation), as one JavaScript turn   *)
(* does.  The two .then() callbacks that read or write the stores after a  *)
(* suspension without a transport call (the callback chained on            *)
(* _ensureJoined, and the callback of _ensureHasPowerLevelFor on a stored  *)
(* content) are steps of their own, so that onEvent can run in between.    *)
(***************************************************************************)
EXTENDS Integers, Sequences, FiniteSets, TLC

\* ------------------------------------------------------------------ bounds
MaxCalls == 2
MaxInvite == 2
MaxRequests == 4
MaxTime == 3

\* ------------------------------------------------------------- identities
SubjectId == "@subject:hs"
BotId == "@bot:hs"
OtherId == "@other:hs"

RoomSeq == <<"!a:hs">>
ProcSeq == <<"p1", "p2">>
ObjSeq == <<"o1", "o2", "o3", "o4">>
Rooms == {RoomSeq[i] : i \in 1..Len(RoomSeq)}
Procs == {ProcSeq[i] : i \in 1..Len(ProcSeq)}
ObjIds == {ObjSeq[i] : i \in 1..Len(ObjSeq)}
SeqProcs == {"p1"}
Undefined == "undefined"

Membership == {"join", "leave"}

STATE_EVENT_TYPES ==
    {"m.room.name", "m.room.topic", "m.room.power_levels", "m.room.member",
     "m.room.join_rules", "m.room.history_visibility"}

Errcodes == {"M_FORBIDDEN", "M_USER_IN_USE", "M_UNKNOWN"}
RegisterOutcomes == {"ok"} \cup Errcodes
Outcomes == {"ok", "M_FORBIDDEN", "M_UNKNOWN"}

\* ------------------------------------------------- power-level contents
EmptyMap == [x \in {} |-> 0]

\* The power-level contents a room is given: one where nobody has power,
\* one where nobody has and changing power levels carries an explicit entry
\* of level 0, one where the bot has power and messages carry an explicit
\* entry of level 0, and one with explicit entries for the subject and for
\* power levels.
PLContents ==
    {[users |-> EmptyMap, events |-> EmptyMap,
      users_default |-> 0, events_default |-> 0, state_default |-> 50],
     [users |-> EmptyMap, events |-> ("m.room.power_levels" :> 0),
      users_default |-> 0, events_default |-> 0, state_default |-> 50],
     [users |-> (BotId :> 100), events |-> ("m.room.message" :> 0),
      users_default |-> 0, events_default |-> 50, state_default |-> 50],
     [users |-> (BotId :> 100) @@ (SubjectId :> 50),
      events |-> ("m.room.message" :> 50) @@ ("m.room.power_levels" :> 100),
      users_default |-> 0, events_default |-> 0, state_default |-> 50]}

VARIABLES
    registered,          \* opts.registered
    dontJoin,            \* opts.dontJoin
    dontCheckPowerLevel, \* opts.dontCheckPowerLevel
    sameClient,          \* botClient and client are the same client
    customStore,         \* opts.backingStore was given to the constructor
    caching,             \* opts.caching as given to the constructor
    own,                 \* this.membershipStates, this.powerLevels beside a given store
    requestCaches,       \* this.requestCaches
    membershipStates,    \* what opts.backingStore holds: this.membershipStates by default
    powerLevels,         \* and this.powerLevels: room -> reference of a content object
    heap,                \* the content objects that are referenced
    inv,                 \* the invocations of the facade
    started,             \* number of invocations started
    requestContent,      \* ClientRequestCache.requestContent, in Map order
    now,                 \* Date.now()
    pending,             \* the requests of requestFunc not settled yet
    invocations,         \* number of invocations of requestFunc
    last,                \* what the last call of get, or its callback, did
    lastHit              \* the key of the entry served last

intent == <<registered, dontJoin, dontCheckPowerLevel, sameClient,
            customStore, caching, own, requestCaches,
            membershipStates, powerLevels, heap, inv, started>>

cache == <<requestContent, now, pending, invocations, last, lastHit>>

vars == <<intent, cache>>

config == <<dontJoin, dontCheckPowerLevel, sameClient, customStore, caching>>

\* What the constructor builds and the guard protocols leave alone.
built == <<own, requestCaches>>

\* The options of the constructor: the defaults, and each option set alone.
Configs ==
    {<<FALSE, FALSE, FALSE>>, <<TRUE, FALSE, FALSE>>,
     <<FALSE, TRUE, FALSE>>, <<FALSE, FALSE, TRUE>>}

DEFAULT_CACHE_TTL == 90000
DEFAULT_CACHE_SIZE == 1024

\* opts.caching left out: if (!opts.caching) opts.caching = { }
NoCaching == [ttl |-> <<>>, size |-> <<>>]

\* opts.caching.ttl === undefined ? DEFAULT_CACHE_TTL : opts.caching.ttl
CachingTtl(c) == IF c.ttl = <<>> THEN DEFAULT_CACHE_TTL ELSE c.ttl[1]

\* opts.caching.size === undefined ? DEFAULT_CACHE_SIZE : opts.caching.ttl,
\* evaluated after opts.caching.ttl was given its default
CachingSize(c) == IF c.size = <<>> THEN DEFAULT_CACHE_SIZE ELSE CachingTtl(c)

CacheNames == {"profile", "roomstate", "event"}

\* new ClientRequestCache(opts.caching.ttl, opts.caching.size, ...), thrice
NewRequestCaches(c) ==
    [n \in CacheNames |->
        [ttl |-> CachingTtl(c), maxSize |-> CachingSize(c),
         requestContent |-> <<>>]]

\* The field initialisers of membershipStates and powerLevels.
OwnInit ==
    [membershipStates |-> [r \in Rooms |-> Undefined],
     powerLevels |-> [r \in Rooms |-> <<>>]]

\* The constructor, as far as the store and the request caches go.
Constructed(store, c) ==
    /\ customStore = store
    /\ caching = c
    /\ own = OwnInit
    /\ requestCaches = NewRequestCaches(c)

userId == SubjectId
botUserId == IF sameClient THEN SubjectId ELSE BotId

\* ------------------------------------------------------ the default store
getMembership(roomId, uid) ==
    IF uid # userId THEN Undefined ELSE membershipStates[roomId]

\* mutant: the test of the user id is inverted
setMembershipInverted(roomId, uid, membership) ==
    IF uid = userId THEN membershipStates
    ELSE [membershipStates EXCEPT ![roomId] = membership]

\* mutant: leave is written whatever the membership
setMembershipLeave(roomId, uid, membership) ==
    IF uid # userId THEN membershipStates
    ELSE [membershipStates EXCEPT ![roomId] = "leave"]

setMembership(roomId, uid, membership) ==
    IF uid # userId THEN membershipStates
    ELSE [membershipStates EXCEPT ![roomId] = membership]

getPowerLevelContent(roomId) == powerLevels[roomId]

\* mutant: the content is not written
setPowerLevelContentDropped(roomId, o) == powerLevels

setPowerLevelContent(roomId, o) == [powerLevels EXCEPT ![roomId] = o]

\* The references to content objects, in a fixed order of their holders.
Refs(pl, iv) ==
    [i \in 1..Len(RoomSeq) |-> pl[RoomSeq[i]]]
        \o [i \in 1..Len(ProcSeq) |-> iv[ProcSeq[i]].snap]

Referenced(pl, iv) ==
    {Refs(pl, iv)[i] : i \in 1..Len(Refs(pl, iv))} \ {Undefined}

\* An object nothing refers to yet.
NewObj == CHOOSE o \in ObjIds : o \notin Referenced(powerLevels, inv)

\* Object identity is kept up to renaming: each referenced object is named
\* after its first holder, and the objects nothing refers to are dropped.
Norm(h, pl, iv) ==
    LET refs == Refs(pl, iv)
        firsts == {i \in 1..Len(refs) :
                      /\ refs[i] # Undefined
                      /\ \A j \in 1..(i - 1) : refs[j] # refs[i]}
        Ren(x) == IF x = Undefined THEN Undefined
                  ELSE ObjSeq[CHOOSE i \in firsts : refs[i] = x]
    IN  [heap |-> [o \in {ObjSeq[i] : i \in firsts} |->
                      h[refs[CHOOSE i \in firsts : ObjSeq[i] = o]]],
         powerLevels |-> [r \in Rooms |-> Ren(pl[r])],
         inv |-> [p \in Procs |-> [iv[p] EXCEPT !.snap = Ren(@)]]]

Stored(h, pl, iv) ==
    LET n == Norm(h, pl, iv)
    IN  heap' = n.heap /\ powerLevels' = n.powerLevels /\ inv' = n.inv

\* ------------------------------------------------------ ClientRequestCache
\* The parameters of the constructor, and the keys that are asked for.
ttl == 2
maxSize == 2
CacheKeys == {"a", "b", "c"}

\* The errors a request is rejected with.
RequestErrors == {"M_UNKNOWN", "M_NOT_FOUND"}

\* What get did last: its kind, key and content, the key trimmed, the error
\* passed to the caller, and the number of calls of get that found no fresh
\* entry so far.
NoGet ==
    [kind |-> "none", key |-> "none", content |-> 0, oldKey |-> "none",
     error |-> "none", misses |-> 0]

\* new ClientRequestCache(ttl, maxSize, requestFunc)
CacheInit ==
    /\ requestContent = <<>>
    /\ now = 0
    /\ pending = {}
    /\ invocations = 0
    /\ last = NoGet
    /\ lastHit = "none"

\* Map.prototype.has / get / delete / set on the entries in insertion order
MapHas(map, key) == \E i \in 1..Len(map) : map[i].key = key

MapGet(map, key) == map[CHOOSE i \in 1..Len(map) : map[i].key = key]

\* mutant: nothing is deleted
MapDeleteNothing(map, key) == map

MapDelete(map, key) == SelectSeq(map, LAMBDA e : e.key # key)

\* mutant: a key that is set again moves to the end
MapSetMovesToEnd(map, key, value) ==
    Append(MapDelete(map, key), [key |-> key] @@ value)

\* Map.prototype.set: a key that is present keeps its place
MapSet(map, key, value) ==
    IF MapHas(map, key)
    THEN [i \in 1..Len(map) |->
             IF map[i].key = key THEN [key |-> key] @@ value ELSE map[i]]
    ELSE Append(map, [key |-> key] @@ value)

\* mutant: an entry is valid while it is younger than ttl
IsFreshStrict(entry) == entry.ts > now - ttl

\* cachedResult.ts >= Date.now() - this.ttl
IsFresh(entry) == entry.ts >= now - ttl

\* mutant: nothing is trimmed
TrimNothing(map) == map

\* mutant: the newest key is trimmed
TrimNewest(map) ==
    IF Len(map) > maxSize THEN SubSeq(map, 1, Len(map) - 1) ELSE map

\* if size > maxSize, delete the first key of the Map
Trim(map) == IF Len(map) > maxSize THEN Tail(map) ELSE map

\* mutant: a call that finds a request for the key in flight invokes none
getCoalescing(key) ==
    /\ ~(MapHas(requestContent, key) /\ IsFresh(MapGet(requestContent, key)))
    /\ last.misses < MaxRequests
    /\ last' = [NoGet EXCEPT !.kind = "miss", !.key = key,
                             !.misses = last.misses + 1]
    /\ requestContent' = MapDelete(requestContent, key)
    /\ IF \E r \in pending : r.key = key
       THEN UNCHANGED <<pending, invocations>>
       ELSE /\ invocations < MaxRequests
            /\ invocations' = invocations + 1
            /\ pending' = pending \cup {[id |-> invocations + 1, key |-> key]}
    /\ UNCHANGED <<lastHit, now, intent>>

\* get(key): a fresh entry is returned; else the key is deleted and
\* requestFunc is invoked, in the same turn.
get(key) ==
    /\ IF MapHas(requestContent, key) /\ IsFresh(MapGet(requestContent, key))
       THEN /\ last' = [NoGet EXCEPT
                            !.kind = "hit", !.key = key,
                            !.content = MapGet(requestContent, key).content,
                            !.misses = last.misses]
            /\ lastHit' = key
            /\ UNCHANGED <<requestContent, pending, invocations>>
       ELSE /\ invocations < MaxRequests
            /\ requestContent' = MapDelete(requestContent, key)
            /\ invocations' = invocations + 1
            /\ pending' = pending \cup {[id |-> invocations + 1, key |-> key]}
            /\ last' = [NoGet EXCEPT !.kind = "miss", !.key = key,
                                     !.misses = last.misses + 1]
            /\ UNCHANGED lastHit
    /\ UNCHANGED <<now, intent>>

\* The promise of requestFunc resolves: the .then callback of get. The
\* content is the number of the request, or undefined.
requestResolve(req, defined) ==
    /\ req \in pending
    /\ pending' = pending \ {req}
    /\ IF defined
       THEN LET set == MapSet(requestContent, req.key,
                              [ts |-> now, content |-> req.id])
                gone == {i \in 1..Len(set) : ~MapHas(Trim(set), set[i].key)}
            IN  /\ requestContent' = Trim(set)
                /\ last' = [NoGet EXCEPT
                                !.kind = "set", !.key = req.key,
                                !.content = req.id,
                                !.misses = last.misses,
                                !.oldKey =
                                    IF gone = {} THEN "none"
                                    ELSE set[CHOOSE i \in gone : TRUE].key]
       ELSE UNCHANGED <<requestContent, last>>
    /\ UNCHANGED <<now, invocations, lastHit, intent>>

\* The promise of requestFunc rejects: the .then callback does not run,
\* and the promise that get returned rejects with the same error.
requestReject(req, err) ==
    /\ req \in pending
    /\ pending' = pending \ {req}
    /\ last' = [NoGet EXCEPT !.kind = "rejected", !.key = req.key,
                             !.content = req.id, !.error = err,
                             !.misses = last.misses]
    /\ UNCHANGED <<requestContent, now, invocations, lastHit, intent>>

\* Time passes.
tick ==
    /\ now < MaxTime
    /\ now' = now + 1
    /\ UNCHANGED <<requestContent, pending, invocations, last, lastHit, intent>>

\* ------------------------------------------------------------ invocations
IdleInv ==
    [op |-> "none", roomId |-> "none", eventType |-> "none", pc |-> "idle",
     ignoreCache |-> FALSE, calls |-> <<>>, trace |-> <<>>,
     required |-> <<>>, snap |-> Undefined,
     createAsClient |-> FALSE, invite |-> <<>>,
     args |-> <<>>, useCache |-> FALSE, request |-> <<>>, sent |-> <<>>,
     value |-> <<>>,
     result |-> "pending", error |-> "none"]

NewInv(op, roomId, eventType) ==
    [IdleInv EXCEPT !.op = op, !.roomId = roomId, !.eventType = eventType]

Mark(rec, what) == [rec EXCEPT !.trace = Append(@, what)]

Issue(rec, call, pc) ==
    [rec EXCEPT !.calls = Append(@, [call |-> call, res |-> "pending"]),
                !.pc = pc]

Answer(rec, outcome) ==
    [rec EXCEPT !.calls[Len(rec.calls)].res = outcome]

\* The invocation settles; what it computed is referenced no longer.
Settle(rec, result, error) ==
    [rec EXCEPT !.pc = "done", !.result = result, !.error = error,
                !.snap = Undefined, !.required = <<>>, !.invite = <<>>]

Init ==
    /\ registered \in BOOLEAN
    /\ \E c \in Configs :
          /\ dontJoin = c[1]
          /\ dontCheckPowerLevel = c[2]
          /\ sameClient = c[3]
    /\ membershipStates = [r \in Rooms |-> Undefined]
    /\ powerLevels = [r \in Rooms |-> Undefined]
    /\ heap = EmptyMap
    /\ inv = [p \in Procs |-> IdleInv]
    /\ started = 0
    /\ Constructed(FALSE, NoCaching)
    /\ CacheInit

\* ------------------------------------------------------- _ensureRegistered
\* this.opts.registered, read when _ensureRegistered is called
NeedsRegister == ~registered

\* mutant: M_USER_IN_USE is not taken for a success
RegisterMarksOnlyOk(outcome) == outcome = "ok"

\* The outcomes of botClient.register after which opts.registered is set.
RegisterMarksRegistered(outcome) ==
    outcome = "ok" \/ outcome = "M_USER_IN_USE"

\* ----------------------------------------------------------- _ensureJoined
\* mutant: the membership of the bot is looked up
FastPathOfBot(roomId, ignoreCache) ==
    getMembership(roomId, BotId) = "join" /\ ~ignoreCache

\* getMembership(roomId, userId) === "join" && !ignoreCache
FastPath(roomId, ignoreCache) ==
    getMembership(roomId, userId) = "join" /\ ~ignoreCache

\* this.botClient === this: botClient is a client and this is the Intent,
\* so the comparison is false whatever client was given as botClient.
BotClientIsThis == FALSE

\* mutant: the errcode is not looked at
JoinFailureNeverTerminal(errcode) == BotClientIsThis

\* ex.errcode !== "M_FORBIDDEN" || this.botClient === this
JoinFailureIsTerminal(errcode) ==
    errcode # "M_FORBIDDEN" \/ BotClientIsThis

\* deferredPromise.resolve(): the promise of _ensureJoined is resolved
EnsureJoinedResolve(rec) ==
    [Mark(rec, "ensureJoined.ok") EXCEPT !.pc = "joined"]

\* The outer catch: reject with Error("Failed to join room") (no caller in
\* this file passes passthroughError); the facade's chain rejects with it.
EnsureJoinedReject(rec) ==
    Settle(Mark(rec, "ensureJoined.fail"), "rejected", "Failed to join room")

\* mutant: dontJoin is not looked at
AfterRegisteredAlwaysJoins(rec) == Issue(rec, "joinRoom", "joinRoom1")

\* After await this._ensureRegistered(): dontJoin resolves, else step 1.
AfterRegistered(rec) ==
    IF dontJoin THEN EnsureJoinedResolve(rec)
    ELSE Issue(rec, "joinRoom", "joinRoom1")

\* The synchronous part of _ensureJoined(roomId, ignoreCache).
ensureJoined(rec, ignoreCache) ==
    LET r == [rec EXCEPT !.ignoreCache = ignoreCache, !.calls = <<>>]
    IN  IF FastPath(r.roomId, ignoreCache) THEN EnsureJoinedResolve(r)
        ELSE IF NeedsRegister THEN Issue(r, "register", "register")
        ELSE AfterRegistered(r)

\* --------------------------------------------------- _ensureHasPowerLevelFor
\* The JavaScript a || b on levels: 0 and undefined are falsy.
OrElse(m, key, default) ==
    IF key \in DOMAIN m /\ m[key] # 0 THEN m[key] ELSE default

RequiredLevel(content, eventType) ==
    LET defaultLevel ==
            IF eventType \in STATE_EVENT_TYPES THEN content.state_default
            ELSE content.events_default
    IN  OrElse(content.events, eventType, defaultLevel)

\* mutant: the users map is not looked at
PowerLevelDefaultOnly(content, uid) == content.users_default

\* RoomMember.setPowerLevelEvent: users[userId] if defined, else users_default
PowerLevel(content, uid) ==
    IF uid \in DOMAIN content.users THEN content.users[uid]
    ELSE content.users_default

\* mutant: changing power levels needs no level
NoLevelRequiredToModifyPowerLevels(content) == 0

LevelRequiredToModifyPowerLevels(content) ==
    OrElse(content.events, "m.room.power_levels", content.state_default)

\* mutant: the content is not patched
PatchUsersNothing(content, uid, level) == content

\* userLevels[userId] = requiredLevel, on the content object of the event
PatchUsers(content, uid, level) ==
    [content EXCEPT !.users =
        [u \in (DOMAIN content.users) \cup {uid} |->
            IF u = uid THEN level ELSE content.users[u]]]

\* ------------------------------------------------------------- the facade
TypedOps == {"sendEvent", "sendStateEvent", "sendTyping", "setPowerLevel"}

\* mutant: sendTyping goes without the power-level guard
HasPowerLevelCheckNoTyping(op) == op \in TypedOps \ {"sendTyping"}

\* The operations whose chain holds _ensureHasPowerLevelFor.
HasPowerLevelCheck(op) == op \in TypedOps

\* The operations whose transport call is wrapped in _joinGuard.
HasJoinGuard(op) == op \in {"sendEvent", "sendStateEvent"}

\* mutant: every error is guardable
IsGuardableAlways(errcode) == TRUE

\* err.errcode !== "M_FORBIDDEN" is not a guardable error
IsGuardable(errcode) == errcode = "M_FORBIDDEN"

\* The transport call of the operation is issued.
IssueSend(rec, pc) == Issue(Mark(rec, "send"), "send", pc)

PowerLevelResolve(rec) ==
    IssueSend(Mark(rec, "ensureHasPowerLevelFor.ok"), "send1")

PowerLevelReject(rec, error) ==
    Settle(Mark(rec, "ensureHasPowerLevelFor.fail"), "rejected", error)

\* A facade method is called: no invocation is in flight in the slot.
CanStart(p) == inv[p].pc \in {"idle", "done"} /\ started < MaxCalls

Started(p, rec) ==
    /\ Stored(heap, powerLevels, [inv EXCEPT ![p] = rec])
    /\ started' = started + 1
    /\ UNCHANGED <<registered, config, cache, built, membershipStates>>

\* An invocation moves on and touches neither store.
Continue(p, rec) ==
    /\ inv' = [inv EXCEPT ![p] = rec]
    /\ UNCHANGED <<registered, config, cache, built, membershipStates, powerLevels, heap,
                   started>>

\* An invocation rejects after the stores were read: its snapshot is let go.
Rejected(p, rec) ==
    /\ Stored(heap, powerLevels, [inv EXCEPT ![p] = rec])
    /\ UNCHANGED <<registered, config, cache, built, membershipStates, started>>

sendEvent(p, roomId, type) ==
    /\ CanStart(p)
    /\ Started(p, ensureJoined(NewInv("sendEvent", roomId, type), FALSE))

sendStateEvent(p, roomId, type) ==
    /\ CanStart(p)
    /\ Started(p, ensureJoined(NewInv("sendStateEvent", roomId, type), FALSE))

sendTyping(p, roomId) ==
    /\ CanStart(p)
    /\ Started(p, ensureJoined(NewInv("sendTyping", roomId, "m.typing"), FALSE))

setPowerLevel(p, roomId) ==
    /\ CanStart(p)
    /\ Started(p, ensureJoined(
                      NewInv("setPowerLevel", roomId, "m.room.power_levels"),
                      FALSE))

invite(p, roomId) ==
    /\ CanStart(p)
    /\ Started(p, ensureJoined(NewInv("invite", roomId, "none"), FALSE))

join(p, roomId) ==
    /\ CanStart(p)
    /\ Started(p, ensureJoined(NewInv("join", roomId, "none"), FALSE))

\* setDisplayName: _ensureRegistered, then client.setDisplayName
setDisplayName(p) ==
    /\ CanStart(p)
    /\ Started(p, LET r == NewInv("setDisplayName", "none", "none")
                  IN  IF NeedsRegister THEN Issue(r, "register", "register")
                      ELSE IssueSend(r, "send1"))

\* ---------------------------------------------------------------- createRoom
\* The users an invite list is made of, and the invite lists given:
\* options.invite is <<>> when undefined, else <<list>>.
UserIds == {SubjectId, BotId, OtherId}

InviteLists ==
    UNION {[1..n -> UserIds] : n \in 0..MaxInvite}

InviteOptions == {<<>>} \cup {<<l>> : l \in InviteLists}

\* list.indexOf(x), counted from 1; 0 stands for -1
IndexOf(list, x) ==
    IF \E i \in 1..Len(list) : list[i] = x
    THEN CHOOSE i \in 1..Len(list) :
             list[i] = x /\ \A j \in 1..(i - 1) : list[j] # x
    ELSE 0

\* list.splice(i, 1)
Splice1(list, i) == SubSeq(list, 1, i - 1) \o SubSeq(list, i + 1, Len(list))

\* cli.credentials.userId
CreatorId(createAsClient) == IF createAsClient THEN userId ELSE botUserId

\* options.invite as createRoom hands it to cli.createRoom
PreparedInvite(createAsClient, list) ==
    LET given == IF list = <<>> THEN <<>> ELSE list[1]
        withClient ==
            IF createAsClient THEN list
            ELSE IF IndexOf(given, userId) = 0 THEN <<Append(given, userId)>>
                 ELSE <<given>>
        cliId == CreatorId(createAsClient)
    IN  IF withClient # <<>> /\ IndexOf(withClient[1], cliId) # 0
        THEN <<Splice1(withClient[1], IndexOf(withClient[1], cliId))>>
        ELSE withClient

\* mutant: the creator is given no power
FakePowerLevelContentNoOps(creatorId) ==
    [users |-> EmptyMap, events |-> EmptyMap,
     users_default |-> 0, events_default |-> 0, state_default |-> 50]

\* the fake power level event that gives the room creator ops
FakePowerLevelContent(creatorId) ==
    [users |-> (creatorId :> 100), events |-> EmptyMap,
     users_default |-> 0, events_default |-> 0, state_default |-> 50]

\* The operations that run _ensureRegistered and not _ensureJoined.
RegisteredOnlyOps == {"setDisplayName", "createRoom"}

\* The transport call that follows _ensureRegistered in such an operation.
AfterRegisteredOnly(rec) ==
    IF rec.op = "createRoom" THEN Issue(rec, "createRoom", "createRoom")
    ELSE IssueSend(rec, "send1")

createRoom(p, createAsClient, list) ==
    /\ CanStart(p)
    /\ Started(p, LET r == [NewInv("createRoom", "none", "none") EXCEPT
                               !.createAsClient = createAsClient,
                               !.invite =
                                   PreparedInvite(createAsClient, list)]
                  IN  IF NeedsRegister THEN Issue(r, "register", "register")
                      ELSE AfterRegisteredOnly(r))

\* cli.createRoom settles: the callback that fakes the power level event
createRoomResponse(p, outcome, roomId) ==
    /\ inv[p].pc = "createRoom"
    /\ LET rec == [Answer(inv[p], outcome) EXCEPT !.roomId = roomId]
       IN  IF outcome # "ok" THEN Continue(p, Settle(rec, "rejected", outcome))
           ELSE /\ IF getPowerLevelContent(roomId) # Undefined
                   THEN Stored(heap, powerLevels,
                               [inv EXCEPT ![p] =
                                   Settle(rec, "resolved", "none")])
                   ELSE Stored((NewObj :> FakePowerLevelContent(
                                    CreatorId(rec.createAsClient))) @@ heap,
                               setPowerLevelContent(roomId, NewObj),
                               [inv EXCEPT ![p] =
                                   Settle(rec, "resolved", "none")])
                /\ UNCHANGED <<registered, config, cache, built, membershipStates,
                               started>>

\* ---------------------------------------------------------- idempotent reads
ReadOps == {"getProfileInfo", "roomState", "getEvent"}

Infos == {"displayname"}
EventIds == {"$e"}

\* args[i], or undefined when fewer arguments were passed
Arg(args, i) == IF i <= Len(args) THEN args[i] ELSE Undefined

\* The request cache a read goes through.
CacheOf(op) ==
    IF op = "getProfileInfo" THEN "profile"
    ELSE IF op = "roomState" THEN "roomstate"
    ELSE "event"

\* The cache key: `${userId}:${info}`, roomId, `${roomId}:${eventId}`. The
\* parts are kept apart rather than joined by the colon.
KeyOf(op, args) == args

\* The transport call of a read that does not use the cache.
DirectCall(op, args) ==
    IF op = "getProfileInfo" THEN <<"getProfileInfo", args[1], args[2]>>
    ELSE IF op = "roomState" THEN <<"roomState", args[1]>>
    ELSE <<"fetchRoomEvent", args[1], args[2]>>

\* requestFunc of each of the three caches, called by get as
\* requestFunc(key, ...args): (_, userId, info) =>
\* this.getProfileInfo(userId, info, false)
RequestFuncCall(name, args) ==
    <<"getProfileInfo", Arg(args, 1), Arg(args, 2)>>

\* The invocation waits on _ensureRegistered alone: getProfileInfo and
\* getEvent, and getProfileInfo as called by a requestFunc.
AwaitsRegisteredOnly(rec) ==
    rec.op \in {"getProfileInfo", "getEvent"} \/ rec.request # <<>>

\* _ensureRegistered(), as called by a read
ReadEnsureRegistered(rec) ==
    IF NeedsRegister THEN Issue(rec, "register", "register")
    ELSE [rec EXCEPT !.pc = "registered"]

IssueRead(rec, call) == [Issue(rec, call[1], "read") EXCEPT !.sent = call]

\* cachedResult.ts >= Date.now() - this.ttl, for the cache c
FreshIn(c, entry) == entry.ts >= now - c.ttl

\* if size > maxSize, delete the first key of the Map, for the cache c
TrimTo(map, size) == IF Len(map) > size THEN Tail(map) ELSE map

NewRead(op, args, useCache) ==
    [NewInv(op, IF op = "getProfileInfo" THEN "none" ELSE args[1], "none")
        EXCEPT !.args = args, !.useCache = useCache]

\* The callback of a read: the transport call, or get on its request cache,
\* which on a miss deletes the key and calls requestFunc in the same turn.
ReadThen(p, rec) ==
    /\ IF ~rec.useCache
       THEN /\ inv' = [inv EXCEPT ![p] =
                          IssueRead(rec, DirectCall(rec.op, rec.args))]
            /\ UNCHANGED requestCaches
       ELSE LET name == CacheOf(rec.op)
                key == KeyOf(rec.op, rec.args)
                c == requestCaches[name]
            IN  IF /\ MapHas(c.requestContent, key)
                   /\ FreshIn(c, MapGet(c.requestContent, key))
                THEN /\ inv' = [inv EXCEPT ![p] =
                                  Settle([rec EXCEPT !.value =
                                      <<MapGet(c.requestContent, key).content>>],
                                      "resolved", "none")]
                     /\ UNCHANGED requestCaches
                ELSE /\ requestCaches' =
                           [requestCaches EXCEPT ![name].requestContent =
                               MapDelete(@, key)]
                     /\ inv' = [inv EXCEPT ![p] =
                                  ReadEnsureRegistered(
                                      [rec EXCEPT !.request =
                                          RequestFuncCall(name, rec.args)])]
    /\ UNCHANGED <<registered, config, cache, own, membershipStates,
                   powerLevels, heap, started>>

getProfileInfo(p, uid, info, useCache) ==
    /\ CanStart(p)
    /\ Started(p, ReadEnsureRegistered(
                      NewRead("getProfileInfo", <<uid, info>>, useCache)))

getEvent(p, roomId, eventId, useCache) ==
    /\ CanStart(p)
    /\ Started(p, ReadEnsureRegistered(
                      NewRead("getEvent", <<roomId, eventId>>, useCache)))

roomState(p, roomId, useCache) ==
    /\ CanStart(p)
    /\ Started(p, ensureJoined(NewRead("roomState", <<roomId>>, useCache),
                               FALSE))

\* The callback chained on the promise of _ensureRegistered by a read.
afterEnsureRegistered(p) ==
    /\ inv[p].pc = "registered"
    /\ IF inv[p].request # <<>>
       THEN Continue(p, IssueRead(inv[p], inv[p].request))
       ELSE ReadThen(p, inv[p])

\* The transport call of a read settles. What it returns is undefined or
\* the answer to the call that was sent; through a cache, the .then of get
\* stores what is not undefined and trims.
readResponse(p, outcome, defined) ==
    /\ inv[p].pc = "read"
    /\ LET rec == Answer(inv[p], outcome)
           name == CacheOf(rec.op)
           value == IF defined THEN <<rec.sent>> ELSE <<>>
       IN  /\ inv' = [inv EXCEPT ![p] =
                         IF outcome = "ok"
                         THEN Settle([rec EXCEPT !.value = value],
                                     "resolved", "none")
                         ELSE Settle(rec, "rejected", outcome)]
           /\ requestCaches' =
                 IF outcome = "ok" /\ rec.request # <<>> /\ defined
                 THEN [requestCaches EXCEPT ![name].requestContent =
                          TrimTo(MapSet(@, KeyOf(rec.op, rec.args),
                                        [ts |-> now, content |-> rec.sent]),
                                 requestCaches[name].maxSize)]
                 ELSE requestCaches
    /\ UNCHANGED <<registered, config, cache, own, membershipStates,
                   powerLevels, heap, started>>

\* botClient.register settles: the .then / .catch of _ensureRegistered, and
\* the continuation of its caller.
registerResponse(p, outcome) ==
    /\ inv[p].pc = "register"
    /\ LET rec == Answer(inv[p], outcome)
           ok == RegisterMarksRegistered(outcome)
       IN  /\ registered' = IF ok THEN TRUE ELSE registered
           /\ inv' = [inv EXCEPT ![p] =
                        IF rec.op \in RegisteredOnlyOps
                        THEN IF ok THEN AfterRegisteredOnly(rec)
                             ELSE Settle(rec, "rejected", outcome)
                        ELSE IF AwaitsRegisteredOnly(rec)
                        THEN IF ok THEN [rec EXCEPT !.pc = "registered"]
                             ELSE Settle(rec, "rejected", outcome)
                        ELSE IF ok THEN AfterRegistered(rec)
                             ELSE EnsureJoinedReject(rec)]
    /\ UNCHANGED <<config, cache, built, membershipStates, powerLevels, heap, started>>

\* mark(roomId, "join"): the store is written and the promise resolved.
Joined(p, rec) ==
    /\ membershipStates' = setMembership(rec.roomId, userId, "join")
    /\ inv' = [inv EXCEPT ![p] = EnsureJoinedResolve(rec)]
    /\ UNCHANGED <<registered, config, cache, built, powerLevels, heap, started>>

\* step 1: client.joinRoom settles
joinRoom1Response(p, outcome) ==
    /\ inv[p].pc = "joinRoom1"
    /\ LET rec == Answer(inv[p], outcome)
       IN  IF outcome = "ok" THEN Joined(p, rec)
           ELSE IF JoinFailureIsTerminal(outcome)
                THEN Continue(p, EnsureJoinedReject(rec))
                ELSE Continue(p, Issue(rec, "bot.invite", "invite2"))

\* step 2: botClient.invite settles
invite2Response(p, outcome) ==
    /\ inv[p].pc = "invite2"
    /\ LET rec == Answer(inv[p], outcome)
       IN  IF outcome = "ok"
           THEN Continue(p, Issue(rec, "joinRoom", "joinRoom2"))
           ELSE Continue(p, Issue(rec, "bot.joinRoom", "botJoinRoom3"))

\* mutant: the fallback of step 3 runs after a successful join as well
joinRoom2ResponseFallthrough(p, outcome) ==
    /\ inv[p].pc = "joinRoom2"
    /\ membershipStates' =
          IF outcome = "ok" THEN setMembership(inv[p].roomId, userId, "join")
          ELSE membershipStates
    /\ inv' = [inv EXCEPT ![p] =
                 Issue(Answer(inv[p], outcome), "bot.joinRoom", "botJoinRoom3")]
    /\ UNCHANGED <<registered, config, cache, built, powerLevels, heap, started>>

\* step 2: client.joinRoom settles
joinRoom2Response(p, outcome) ==
    /\ inv[p].pc = "joinRoom2"
    /\ LET rec == Answer(inv[p], outcome)
       IN  IF outcome = "ok" THEN Joined(p, rec)
           ELSE Continue(p, Issue(rec, "bot.joinRoom", "botJoinRoom3"))

\* mutant: a failure of the bot's join is swallowed
botJoinRoom3ResponseIgnoresFailure(p, outcome) ==
    /\ inv[p].pc = "botJoinRoom3"
    /\ Continue(p, Issue(Answer(inv[p], outcome), "bot.invite", "invite3"))

\* step 3: botClient.joinRoom settles
botJoinRoom3Response(p, outcome) ==
    /\ inv[p].pc = "botJoinRoom3"
    /\ LET rec == Answer(inv[p], outcome)
       IN  IF outcome = "ok"
           THEN Continue(p, Issue(rec, "bot.invite", "invite3"))
           ELSE Continue(p, EnsureJoinedReject(rec))

\* step 3: botClient.invite settles
invite3Response(p, outcome) ==
    /\ inv[p].pc = "invite3"
    /\ LET rec == Answer(inv[p], outcome)
       IN  IF outcome = "ok"
           THEN Continue(p, Issue(rec, "joinRoom", "joinRoom3"))
           ELSE Continue(p, EnsureJoinedReject(rec))

\* mutant: a failed join of step 3 asks the bot for one more invite
joinRoom3ResponseRetries(p, outcome) ==
    /\ inv[p].pc = "joinRoom3"
    /\ LET rec == Answer(inv[p], outcome)
       IN  IF outcome = "ok" THEN Joined(p, rec)
           ELSE IF Len(rec.calls) < 8
                THEN Continue(p, Issue(rec, "bot.invite", "invite3"))
                ELSE Continue(p, EnsureJoinedReject(rec))

\* step 3: client.joinRoom settles
joinRoom3Response(p, outcome) ==
    /\ inv[p].pc = "joinRoom3"
    /\ LET rec == Answer(inv[p], outcome)
       IN  IF outcome = "ok" THEN Joined(p, rec)
           ELSE Continue(p, EnsureJoinedReject(rec))

\* The synchronous part of _ensureHasPowerLevelFor(roomId, eventType).
ensureHasPowerLevelFor(rec) ==
    LET plContent == getPowerLevelContent(rec.roomId)
    IN  IF dontCheckPowerLevel /\ rec.eventType # "m.room.power_levels"
        THEN PowerLevelResolve(rec)
        ELSE IF plContent # Undefined
             THEN [rec EXCEPT !.pc = "plContent", !.snap = plContent]
             ELSE Issue(rec, "getStateEvent", "getStateEvent")

\* The callback chained on the promise of _ensureJoined.
afterEnsureJoined(p) ==
    /\ inv[p].pc = "joined"
    /\ LET rec == [inv[p] EXCEPT !.calls = <<>>]
       IN  IF rec.op \in ReadOps THEN ReadThen(p, rec)
           ELSE Continue(p,
              IF rec.ignoreCache THEN IssueSend(rec, "send2")
              ELSE IF rec.op = "join" THEN Settle(rec, "resolved", "none")
              ELSE IF HasPowerLevelCheck(rec.op)
                   THEN ensureHasPowerLevelFor(rec)
                   ELSE IssueSend(rec, "send1"))

\* promise.then(function(eventContent) ...) on the content object o
powerLevelCallback(p, rec, o, h) ==
    LET content == h[o]
        requiredLevel == RequiredLevel(content, rec.eventType)
        r == [rec EXCEPT !.required = <<requiredLevel>>, !.snap = o]
    IN  /\ Stored(h, setPowerLevelContent(rec.roomId, o),
              [inv EXCEPT ![p] =
                 IF requiredLevel > PowerLevel(content, userId)
                 THEN IF LevelRequiredToModifyPowerLevels(content)
                             > PowerLevel(content, botUserId)
                      THEN PowerLevelReject(r,
                               "Cannot ensure client has power level")
                      ELSE Issue(r, "bot.setPowerLevel", "setPowerLevel")
                 ELSE PowerLevelResolve(r)])
        /\ UNCHANGED <<registered, config, cache, built, membershipStates, started>>

\* The store held a content: the callback runs on it.
powerLevelContentThen(p) ==
    /\ inv[p].pc = "plContent"
    /\ powerLevelCallback(p, inv[p], inv[p].snap, heap)

\* client.getStateEvent settles
getStateEventResponse(p, outcome, content) ==
    /\ inv[p].pc = "getStateEvent"
    /\ LET rec == Answer(inv[p], outcome)
       IN  IF outcome = "ok"
           THEN powerLevelCallback(p, rec, NewObj, (NewObj :> content) @@ heap)
           ELSE Rejected(p, PowerLevelReject(rec, outcome))

\* botClient.setPowerLevel settles
botSetPowerLevelResponse(p, outcome) ==
    /\ inv[p].pc = "setPowerLevel"
    /\ LET rec == Answer(inv[p], outcome)
       IN  IF outcome = "ok"
           THEN /\ heap' = [heap EXCEPT ![rec.snap] =
                              PatchUsers(@, userId, rec.required[1])]
                /\ inv' = [inv EXCEPT ![p] = PowerLevelResolve(rec)]
                /\ UNCHANGED <<registered, config, cache, built, membershipStates,
                               powerLevels, started>>
           ELSE Rejected(p, PowerLevelReject(rec, outcome))

\* The transport call of the operation settles (first attempt); the
\* snapshot handed to its callback is referenced no longer. While _joinGuard
\* retries, the error it caught is kept.
sendResponse(p, outcome) ==
    /\ inv[p].pc = "send1"
    /\ LET rec == [Answer(inv[p], outcome) EXCEPT !.snap = Undefined,
                                                  !.required = <<>>]
       IN  Stored(heap, powerLevels, [inv EXCEPT ![p] =
              IF outcome = "ok" THEN Settle(rec, "resolved", "none")
              ELSE IF HasJoinGuard(rec.op) /\ IsGuardable(outcome)
                   THEN ensureJoined([rec EXCEPT !.error = outcome], TRUE)
                   ELSE Settle(rec, "rejected", outcome)])
    /\ UNCHANGED <<registered, config, cache, built, membershipStates, started>>

\* The transport call retried by _joinGuard settles.
send2Response(p, outcome) ==
    /\ inv[p].pc = "send2"
    /\ LET rec == Answer(inv[p], outcome)
       IN  Continue(p,
              IF outcome = "ok" THEN Settle(rec, "resolved", "none")
              ELSE Settle(rec, "rejected", outcome))

\* ----------------------------------------------------------------- onEvent
MemberEvents ==
    [type : {"m.room.member"}, state_key : {SubjectId, OtherId},
     room_id : Rooms, content : [membership : Membership]]

PowerLevelEvents ==
    [type : {"m.room.power_levels"}, state_key : {""}, room_id : Rooms,
     content : PLContents]

\* The fields written by onEvent when a store was given: nothing reads them.
OwnOnEvent(event, anyUser) ==
    IF /\ event.type = "m.room.member"
       /\ (anyUser \/ event.state_key = userId)
    THEN [own EXCEPT !.membershipStates[event.room_id] =
                         event.content.membership]
    ELSE IF event.type = "m.room.power_levels"
         THEN [own EXCEPT !.powerLevels[event.room_id] = <<event.content>>]
         ELSE own

\* mutant: the state key of a membership event is not looked at
onEventAnyUser(event) ==
    /\ IF customStore
       THEN /\ own' = OwnOnEvent(event, TRUE)
            /\ UNCHANGED <<membershipStates, powerLevels, heap, inv>>
       ELSE /\ own' = own
            /\ IF event.type = "m.room.member"
               THEN /\ membershipStates' =
                          [membershipStates EXCEPT ![event.room_id] =
                              event.content.membership]
                    /\ UNCHANGED <<powerLevels, heap, inv>>
               ELSE /\ Stored((NewObj :> event.content) @@ heap,
                              [powerLevels EXCEPT ![event.room_id] = NewObj],
                              inv)
                    /\ UNCHANGED membershipStates
    /\ UNCHANGED <<registered, config, cache, requestCaches, started>>

\* onEvent(event). this.membershipStates and this.powerLevels are always
\* set, so the first test never returns; they are what the default store
\* reads, and fields nothing reads when a store was given.
onEvent(event) ==
    /\ IF customStore
       THEN /\ own' = OwnOnEvent(event, FALSE)
            /\ UNCHANGED <<membershipStates, powerLevels, heap, inv>>
       ELSE /\ own' = own
            /\ IF event.type = "m.room.member" /\ event.state_key = userId
               THEN /\ membershipStates' =
                          [membershipStates EXCEPT ![event.room_id] =
                              event.content.membership]
                    /\ UNCHANGED <<powerLevels, heap, inv>>
               ELSE IF event.type = "m.room.power_levels"
                    THEN /\ Stored((NewObj :> event.content) @@ heap,
                                   [powerLevels EXCEPT ![event.room_id] =
                                       NewObj],
                                   inv)
                         /\ UNCHANGED membershipStates
                    ELSE UNCHANGED <<membershipStates, powerLevels, heap, inv>>
    /\ UNCHANGED <<registered, config, cache, requestCaches, started>>

\* ------------------------------------------------------- the specification
MessageTypes == {"m.room.message"}
StateTypes == {"m.room.topic"}

Step(p) ==
    \/ \E r \in Rooms, t \in MessageTypes : sendEvent(p, r, t)
    \/ \E r \in Rooms, t \in StateTypes : sendStateEvent(p, r, t)
    \/ \E r \in Rooms : sendTyping(p, r)
    \/ \E r \in Rooms : setPowerLevel(p, r)
    \/ \E r \in Rooms : invite(p, r)
    \/ \E r \in Rooms : join(p, r)
    \/ setDisplayName(p)
    \/ \E a \in BOOLEAN, i \in InviteOptions : createRoom(p, a, i)
    \/ \E o \in Outcomes, r \in Rooms : createRoomResponse(p, o, r)
    \/ \E o \in RegisterOutcomes : registerResponse(p, o)
    \/ \E o \in Outcomes : joinRoom1Response(p, o)
    \/ \E o \in Outcomes : invite2Response(p, o)
    \/ \E o \in Outcomes : joinRoom2Response(p, o)
    \/ \E o \in Outcomes : botJoinRoom3Response(p, o)
    \/ \E o \in Outcomes : invite3Response(p, o)
    \/ \E o \in Outcomes : joinRoom3Response(p, o)
    \/ afterEnsureJoined(p)
    \/ powerLevelContentThen(p)
    \/ \E o \in Outcomes, c \in PLContents : getStateEventResponse(p, o, c)
    \/ \E o \in Outcomes : botSetPowerLevelResponse(p, o)
    \/ \E o \in Outcomes : sendResponse(p, o)
    \/ \E o \in Outcomes : send2Response(p, o)

Next ==
    \/ \E p \in SeqProcs : Step(p)
    \/ \E e \in MemberEvents \cup PowerLevelEvents : onEvent(e)

Spec == Init /\ [][Next]_vars

\* An Intent that skips the power level check, used for join and sendEvent
\* only: _ensureJoined is entered by both, and forced by _joinGuard.
JoinInit ==
    /\ registered \in BOOLEAN
    /\ dontJoin \in BOOLEAN
    /\ dontCheckPowerLevel = TRUE
    /\ sameClient = FALSE
    /\ membershipStates = [r \in Rooms |-> Undefined]
    /\ powerLevels = [r \in Rooms |-> Undefined]
    /\ heap = EmptyMap
    /\ inv = [p \in Procs |-> IdleInv]
    /\ started = 0
    /\ Constructed(FALSE, NoCaching)
    /\ CacheInit

JoinStep(p) ==
    \/ \E r \in Rooms, t \in MessageTypes : sendEvent(p, r, t)
    \/ \E r \in Rooms : join(p, r)
    \/ \E o \in RegisterOutcomes : registerResponse(p, o)
    \/ \E o \in Outcomes : joinRoom1Response(p, o)
    \/ \E o \in Outcomes : invite2Response(p, o)
    \/ \E o \in Outcomes : joinRoom2Response(p, o)
    \/ \E o \in Outcomes : botJoinRoom3Response(p, o)
    \/ \E o \in Outcomes : invite3Response(p, o)
    \/ \E o \in Outcomes : joinRoom3Response(p, o)
    \/ afterEnsureJoined(p)
    \/ \E o \in Outcomes : sendResponse(p, o)
    \/ \E o \in Outcomes : send2Response(p, o)

JoinNext ==
    \/ \E p \in SeqProcs : JoinStep(p)
    \/ \E e \in MemberEvents : onEvent(e)

\* Every transport call settles, and a callback that can run does run: a
\* step of an invocation that can be taken is taken eventually.
JoinSpec == JoinInit /\ [][JoinNext]_vars /\ WF_vars(\E p \in SeqProcs : JoinStep(p))

\* A room where a state event needs level 50 and the power levels need 100.
ConcContents ==
    {[users |-> (BotId :> 100), events |-> ("m.room.power_levels" :> 100),
      users_default |-> 0, events_default |-> 0, state_default |-> 50]}

\* A registered Intent with the default options.
ConcInit ==
    /\ registered = TRUE
    /\ dontJoin = FALSE
    /\ dontCheckPowerLevel = FALSE
    /\ sameClient = FALSE
    /\ membershipStates = [r \in Rooms |-> Undefined]
    /\ powerLevels = [r \in Rooms |-> Undefined]
    /\ heap = EmptyMap
    /\ inv = [p \in Procs |-> IdleInv]
    /\ started = 0
    /\ Constructed(FALSE, NoCaching)
    /\ CacheInit

\* sendStateEvent and setPowerLevel, every transport call succeeding.
ConcStep(p) ==
    \/ \E r \in Rooms, t \in StateTypes : sendStateEvent(p, r, t)
    \/ \E r \in Rooms : setPowerLevel(p, r)
    \/ joinRoom1Response(p, "ok")
    \/ afterEnsureJoined(p)
    \/ powerLevelContentThen(p)
    \/ \E c \in ConcContents : getStateEventResponse(p, "ok", c)
    \/ botSetPowerLevelResponse(p, "ok")
    \/ sendResponse(p, "ok")

\* Two invocations are in flight at once: their steps interleave at the
\* transport calls and promise callbacks.
ConcNext == \E p \in Procs : ConcStep(p)

ConcSpec == ConcInit /\ [][ConcNext]_vars

\* The options of caching given to the constructor.
CachingOptions == [ttl : {<<>>, <<1>>, <<2>>}, size : {<<>>, <<1>>, <<2>>}]

\* The Intent with its default options but caching, used for reads only.
ReadInit ==
    /\ registered \in BOOLEAN
    /\ dontJoin = FALSE
    /\ dontCheckPowerLevel = FALSE
    /\ sameClient = FALSE
    /\ membershipStates = [r \in Rooms |-> Undefined]
    /\ powerLevels = [r \in Rooms |-> Undefined]
    /\ heap = EmptyMap
    /\ inv = [p \in Procs |-> IdleInv]
    /\ started = 0
    /\ \E c \in CachingOptions : Constructed(FALSE, c)
    /\ CacheInit

\* The reads, with the subject joining at the first attempt.
ReadStep(p) ==
    \/ \E u \in {SubjectId, OtherId}, i \in Infos, c \in BOOLEAN :
          getProfileInfo(p, u, i, c)
    \/ \E r \in Rooms, c \in BOOLEAN : roomState(p, r, c)
    \/ \E r \in Rooms, e \in EventIds, c \in BOOLEAN : getEvent(p, r, e, c)
    \/ \E o \in RegisterOutcomes : registerResponse(p, o)
    \/ joinRoom1Response(p, "ok")
    \/ afterEnsureJoined(p)
    \/ afterEnsureRegistered(p)
    \/ \E o \in Outcomes, d \in BOOLEAN : readResponse(p, o, d)

ReadNext ==
    \/ \E p \in SeqProcs : ReadStep(p)
    \/ tick

ReadSpec == ReadInit /\ [][ReadNext]_vars

\* The Intent with its default store and with a store given by the caller,
\* taken to return for a room what was set for it last.
StoreInit ==
    /\ registered \in BOOLEAN
    /\ dontJoin = FALSE
    /\ dontCheckPowerLevel = FALSE
    /\ sameClient = FALSE
    /\ membershipStates = [r \in Rooms |-> Undefined]
    /\ powerLevels = [r \in Rooms |-> Undefined]
    /\ heap = EmptyMap
    /\ inv = [p \in Procs |-> IdleInv]
    /\ started = 0
    /\ \E store \in BOOLEAN : Constructed(store, NoCaching)
    /\ CacheInit

StoreSpec == StoreInit /\ [][Next]_vars

\* The request cache alone, used by a registered Intent that does nothing.
CacheSpecInit ==
    /\ registered = TRUE
    /\ dontJoin = FALSE
    /\ dontCheckPowerLevel = FALSE
    /\ sameClient = FALSE
    /\ membershipStates = [r \in Rooms |-> Undefined]
    /\ powerLevels = [r \in Rooms |-> Undefined]
    /\ heap = EmptyMap
    /\ inv = [p \in Procs |-> IdleInv]
    /\ started = 0
    /\ Constructed(FALSE, NoCaching)
    /\ CacheInit

CacheNext ==
    \/ \E k \in CacheKeys : get(k)
    \/ \E r \in pending, d \in BOOLEAN : requestResolve(r, d)
    \/ \E r \in pending, e \in RequestErrors : requestReject(r, e)
    \/ tick

CacheSpec == CacheSpecInit /\ [][CacheNext]_vars

\* ================================================================= claims
\* The calls of an _ensureJoined invocation after its registration guard.
JoinPart(calls) ==
    IF Len(calls) > 0 /\ calls[1].call = "register" THEN Tail(calls)
    ELSE calls

Entry(call, res) == [call |-> call, res |-> res]

\* In this step a facade method is called in slot p.
CallStep(p) ==
    inv[p].pc \in {"idle", "done"} /\ inv'[p].pc \notin {"idle", "done"}

\* In this step _joinGuard calls _ensureJoined(roomId, true) in slot p.
RetryStep(p) ==
    inv[p].pc = "send1" /\ inv'[p].pc \notin {"send1", "done"}

\* In this step _ensureJoined is called in slot p.
EnsureJoinedStep(p) ==
    (CallStep(p) /\ inv'[p].op \notin RegisteredOnlyOps) \/ RetryStep(p)

\* What the two stores hold.
StoreView ==
    <<membershipStates,
      [r \in Rooms |-> IF powerLevels[r] = Undefined THEN <<>>
                       ELSE <<heap[powerLevels[r]]>>]>>

\* C1: for sendEvent, sendStateEvent, sendTyping and setPowerLevel, the
\* transport call of the action is issued only after ensureJoined and then
\* ensureHasPowerLevelFor have resolved, in that order, in the same
\* invocation; if either guard fails the transport call is never issued.
C1_GuardsBeforeTransport ==
    \A p \in Procs :
        LET t == inv[p].trace
            sent == \E i \in 1..Len(t) : t[i] = "send"
        IN  inv[p].op \in {"sendEvent", "sendStateEvent", "sendTyping",
                           "setPowerLevel"} =>
              /\ \A i \in 1..Len(t) :
                    t[i] = "send" =>
                       /\ i >= 3
                       /\ t[1] = "ensureJoined.ok"
                       /\ t[2] = "ensureHasPowerLevelFor.ok"
              /\ (Len(t) >= 1 /\ t[1] = "ensureJoined.fail") => ~sent
              /\ (\E i \in 1..Len(t) : t[i] = "ensureHasPowerLevelFor.fail")
                    => ~sent

C1_Witness ==
    \E p \in Procs :
        /\ inv[p].op = "sendTyping"
        /\ ~dontCheckPowerLevel
        /\ inv[p].pc = "send1"
        /\ inv[p].trace =
              <<"ensureJoined.ok", "ensureHasPowerLevelFor.ok", "send">>

\* C2: if the store reports join for the subject in R and ignoreCache is
\* false, ensureJoined(R) resolves at once with no transport call and
\* leaves the stores unchanged.
C2_FastPath ==
    [][\A p \in Procs :
          (/\ EnsureJoinedStep(p)
           /\ ~inv'[p].ignoreCache
           /\ membershipStates[inv'[p].roomId] = "join")
          => /\ inv'[p].pc = "joined"
             /\ inv'[p].calls = <<>>
             /\ inv'[p].trace = <<"ensureJoined.ok">>
             /\ StoreView' = StoreView
             /\ registered' = registered]_vars

C2_Witness ==
    \E p \in Procs :
        /\ inv[p].pc = "joined"
        /\ inv[p].calls = <<>>
        /\ ~inv[p].ignoreCache
        /\ ~dontJoin
        /\ ~registered
        /\ membershipStates[inv[p].roomId] = "join"

\* The last joinRoom of the subject in calls, if there is one, succeeded.
LastJoinOk(calls) ==
    \A i \in 1..Len(calls) :
        (/\ calls[i].call = "joinRoom"
         /\ \A j \in (i + 1)..Len(calls) : calls[j].call # "joinRoom")
        => calls[i].res = "ok"

\* C3: whenever ensureJoined(R) resolves and dontJoin is not set, the
\* default store reports join for (R, subject) at the moment of resolution,
\* and the last joinRoom of the subject in that invocation succeeded.
C3_ResolvedMeansJoined ==
    [][\A p \in Procs :
          (inv[p].pc # "joined" /\ inv'[p].pc = "joined" /\ ~dontJoin)
          => /\ membershipStates'[inv'[p].roomId] = "join"
             /\ LastJoinOk(inv'[p].calls)]_vars

C3_Witness ==
    \E p \in Procs :
        LET c == JoinPart(inv[p].calls)
        IN  /\ inv[p].pc = "joined"
            /\ ~dontJoin
            /\ Len(c) = 6
            /\ c[3] = Entry("joinRoom", "M_UNKNOWN")
            /\ c[6] = Entry("joinRoom", "ok")
            /\ membershipStates[inv[p].roomId] = "join"

\* C4: if the first joinRoom of the subject fails with an errcode other
\* than M_FORBIDDEN, ensureJoined fails at once: no invite, no joinRoom of
\* the bot and no further join of the subject follow.
C4_NonForbiddenIsTerminal ==
    \A p \in Procs :
        LET c == JoinPart(inv[p].calls)
        IN  (/\ Len(c) >= 1
             /\ c[1].call = "joinRoom"
             /\ c[1].res \in Errcodes \ {"M_FORBIDDEN"})
            => /\ Len(c) = 1
               /\ inv[p].pc = "done"
               /\ inv[p].result = "rejected"
               /\ inv[p].trace[Len(inv[p].trace)] = "ensureJoined.fail"

C4_Witness ==
    \E p \in Procs :
        /\ inv[p].pc = "done"
        /\ JoinPart(inv[p].calls) = <<Entry("joinRoom", "M_UNKNOWN")>>

\* C5: when the privileged identity and the subject are the same, a
\* permission-denied failure of the first joinRoom is not retried: no
\* invite of the subject by itself and no second join follow, and
\* ensureJoined fails.
C5_SameIdentityNoRetry ==
    \A p \in Procs :
        LET c == JoinPart(inv[p].calls)
        IN  (/\ sameClient
             /\ Len(c) >= 1
             /\ c[1] = Entry("joinRoom", "M_FORBIDDEN"))
            => /\ Len(c) = 1
               /\ inv[p].pc = "done"
               /\ inv[p].result = "rejected"

\* C6: when the first join fails with M_FORBIDDEN, privileged # subject,
\* and the invite by the bot and the second join succeed, the invocation
\* resolves with join recorded, after exactly the calls join, invite, join.
C6_InviteThenJoin ==
    [][\A p \in Procs :
          LET c == JoinPart(inv'[p].calls)
          IN  (/\ ~sameClient
               /\ Len(c) >= 3
               /\ c[1] = Entry("joinRoom", "M_FORBIDDEN")
               /\ c[2] = Entry("bot.invite", "ok")
               /\ c[3] = Entry("joinRoom", "ok"))
              => /\ Len(c) = 3
                 /\ inv'[p].pc = "joined"
                 /\ inv'[p].trace[Len(inv'[p].trace)] = "ensureJoined.ok"
                 /\ (inv[p].pc # "joined"
                        => membershipStates'[inv'[p].roomId] = "join")]_vars

C6_Witness ==
    \E p \in Procs :
        /\ ~sameClient
        /\ inv[p].pc = "joined"
        /\ JoinPart(inv[p].calls) =
              <<Entry("joinRoom", "M_FORBIDDEN"), Entry("bot.invite", "ok"),
                Entry("joinRoom", "ok")>>
        /\ membershipStates[inv[p].roomId] = "join"

\* The index in c of the call of step 2 that failed, 0 if none did.
Step2FailedAt(c) ==
    IF Len(c) >= 2 /\ c[2].call = "bot.invite" /\ c[2].res \in Errcodes
    THEN 2
    ELSE IF /\ Len(c) >= 3
            /\ c[2] = Entry("bot.invite", "ok")
            /\ c[3].call = "joinRoom"
            /\ c[3].res \in Errcodes
         THEN 3
         ELSE 0

Step3Calls == <<"bot.joinRoom", "bot.invite", "joinRoom">>
Step3Pcs == <<"botJoinRoom3", "invite3", "joinRoom3">>

\* Once step 2 has failed, the calls after it are those of step 3, in order,
\* each made only after the one before succeeded.
Step3Shape(rec) ==
    LET c == JoinPart(rec.calls)
        k == Step2FailedAt(c)
        rest == SubSeq(c, k + 1, Len(c))
        n == Len(rest)
    IN  k > 0 =>
          /\ n \in 1..3
          /\ \A i \in 1..n :
                /\ rest[i].call = Step3Calls[i]
                /\ (i < n => rest[i].res = "ok")
          /\ (rest[n].res \in Errcodes
                => rec.pc = "done" /\ rec.result = "rejected")
          /\ (rest[n].res = "pending" => rec.pc = Step3Pcs[n])
          /\ (rest[n].res = "ok" => n = 3 /\ rec.pc = "joined")

C8_DontJoinNoTransportCall ==
    [][dontJoin =>
          \A p \in Procs :
              EnsureJoinedStep(p)
              => /\ inv'[p].pc = "joined"
                 /\ inv'[p].calls = <<>>
                 /\ StoreView' = StoreView]_vars

\* C8 as amended: when dontJoin is set, ensureJoined issues no joinRoom and
\* no invite and never changes the membership store, but runs the
\* registration guard unless the fast path applies: registered, it
\* resolves with no transport call; else it issues one register and
\* resolves if that succeeds or answers M_USER_IN_USE, and rejects if not.
C8_DontJoinRegistersOnly ==
    [][dontJoin =>
          \A p \in Procs :
              /\ \A i \in 1..Len(inv'[p].calls) :
                    inv'[p].calls[i].call \notin
                        {"joinRoom", "bot.invite", "bot.joinRoom"}
              /\ (inv'[p] # inv[p] => membershipStates' = membershipStates)
              /\ EnsureJoinedStep(p) =>
                    IF \/ registered
                       \/ (/\ membershipStates[inv'[p].roomId] = "join"
                           /\ ~inv'[p].ignoreCache)
                    THEN inv'[p].pc = "joined" /\ inv'[p].calls = <<>>
                    ELSE /\ inv'[p].pc = "register"
                         /\ inv'[p].calls = <<Entry("register", "pending")>>
              /\ (/\ inv[p].pc = "register"
                  /\ inv'[p].pc # "register"
                  /\ inv[p].op \notin RegisteredOnlyOps)
                 => /\ Len(inv'[p].calls) = 1
                    /\ IF inv'[p].calls[1].res \in {"ok", "M_USER_IN_USE"}
                       THEN inv'[p].pc = "joined"
                       ELSE /\ inv'[p].pc = "done"
                            /\ inv'[p].result = "rejected"]_vars

C8_Witness ==
    /\ dontJoin
    /\ \E p \in Procs :
          /\ inv[p].pc = "joined"
          /\ inv[p].calls = <<Entry("register", "ok")>>

\* C9: ensureRegistered issues register if and only if the identity is not
\* marked registered; a success or M_USER_IN_USE marks it, and no later
\* call issues register; any other error propagates unmodified and leaves
\* it unmarked, so that the next call issues register again.
C9_RegisterIffUnmarked ==
    [][\A p \in Procs :
          LET rec == inv'[p]
              start == CallStep(p) \/ RetryStep(p)
              invoked ==
                  \/ rec.op \in RegisteredOnlyOps
                  \/ ~(/\ membershipStates[rec.roomId] = "join"
                       /\ ~rec.ignoreCache)
          IN  /\ start => ((rec.pc = "register") <=> (invoked /\ ~registered))
              /\ (~start /\ rec.pc = "register") => inv[p].pc = "register"
              /\ \A i \in 1..Len(rec.calls) :
                    rec.calls[i].call = "register" => i = 1
              /\ (inv[p].pc = "register" /\ rec.pc # "register")
                 => IF rec.calls[1].res \in {"ok", "M_USER_IN_USE"}
                    THEN registered' /\ rec.result # "rejected"
                    ELSE /\ registered' = registered
                         /\ rec.pc = "done"
                         /\ rec.result = "rejected"
                         /\ (rec.op \in RegisteredOnlyOps
                                => rec.error = rec.calls[1].res)
              /\ (registered => registered')]_vars

C9_Witness ==
    /\ registered
    /\ \E p \in Procs :
          /\ inv[p].op = "setDisplayName"
          /\ inv[p].pc = "send1"
          /\ inv[p].calls =
                <<Entry("register", "M_USER_IN_USE"), Entry("send", "pending")>>

\* The level the claim requires: the explicit entry whenever there is one.
ExplicitOrDefault(content, eventType) ==
    IF eventType \in DOMAIN content.events THEN content.events[eventType]
    ELSE IF eventType \in STATE_EVENT_TYPES THEN content.state_default
         ELSE content.events_default

\* C10: in ensureHasPowerLevelFor the required level of an action type is
\* the explicit entry for the type in the events map whenever there is one
\* (an entry of level 0 included), and only without an entry state_default
\* for the fixed state-event types and events_default for any other type.
C10_ExplicitEntryWins ==
    \A p \in Procs :
        inv[p].required # <<>> =>
            inv[p].required[1] =
                ExplicitOrDefault(heap[inv[p].snap], inv[p].eventType)

\* In this step the callback of _ensureHasPowerLevelFor runs in slot p, on
\* the stored content or on the content that getStateEvent answered.
CallbackStep(p) ==
    \/ inv[p].pc = "plContent" /\ inv'[p].pc # "plContent"
    \/ /\ inv[p].pc = "getStateEvent"
       /\ inv'[p].calls[1] = Entry("getStateEvent", "ok")

\* The content the callback of this step ran on: it has written it to the
\* store before anything else.
CallbackContent(p) == heap'[powerLevels'[inv[p].roomId]]

\* The level of a user: its users entry, else users_default.
CurrentLevel(content, uid) ==
    IF uid \in DOMAIN content.users THEN content.users[uid]
    ELSE content.users_default

HasCall(rec, call) == \E i \in 1..Len(rec.calls) : rec.calls[i].call = call

\* The power-level content the store holds for each room.
StoredContent ==
    [r \in Rooms |-> IF powerLevels[r] = Undefined THEN <<>>
                     ELSE <<heap[powerLevels[r]]>>]

LevelToModifyPowerLevels(content) ==
    IF "m.room.power_levels" \in DOMAIN content.events
    THEN content.events["m.room.power_levels"]
    ELSE content.state_default

C13_EscalatesWhenBotHasAuthority ==
    [][\A p \in Procs :
          LET c == CallbackContent(p)
          IN  /\ (/\ CallbackStep(p)
                  /\ CurrentLevel(c, userId)
                        < RequiredLevel(c, inv[p].eventType)
                  /\ CurrentLevel(c, botUserId) >= LevelToModifyPowerLevels(c))
                 => /\ inv'[p].pc = "setPowerLevel"
                    /\ inv'[p].calls[Len(inv'[p].calls)] =
                          Entry("bot.setPowerLevel", "pending")
                    /\ inv'[p].required =
                          <<RequiredLevel(c, inv[p].eventType)>>
              /\ (inv[p].pc = "setPowerLevel" /\ inv'[p].pc = "send1")
                 => /\ heap'[inv'[p].snap].users[userId] = inv[p].required[1]
                    /\ Cardinality({i \in 1..Len(inv'[p].calls) :
                           inv'[p].calls[i].call = "getStateEvent"}) <= 1
                    /\ Cardinality({i \in 1..Len(inv'[p].calls) :
                           inv'[p].calls[i].call = "bot.setPowerLevel"}) = 1
       ]_vars

\* C14: ensureHasPowerLevelFor issues getStateEvent only when the store
\* holds no power-level content for the room, and writes the content that
\* is answered into the store, so that a following call for the room reads
\* the store and issues no getStateEvent.
C14_FetchOnlyWhenStoreEmpty ==
    [][\A p \in Procs :
          LET r == inv[p].roomId
          IN  /\ (inv[p].pc # "getStateEvent" /\ inv'[p].pc = "getStateEvent")
                 => /\ inv[p].pc = "joined"
                    /\ powerLevels[r] = Undefined
              /\ (/\ inv[p].pc = "joined"
                  /\ inv'[p].pc # "joined"
                  /\ powerLevels[r] # Undefined)
                 => ~HasCall(inv'[p], "getStateEvent")
              /\ (/\ inv[p].pc = "getStateEvent"
                  /\ inv'[p].calls[1] = Entry("getStateEvent", "ok"))
                 => /\ powerLevels'[r] # Undefined
                    /\ heap'[powerLevels'[r]] \in PLContents]_vars

C14_Witness ==
    \E p \in Procs :
        /\ started = 2
        /\ inv[p].op = "sendTyping"
        /\ inv[p].pc = "plContent"
        /\ inv[p].calls = <<>>
        /\ inv[p].snap = powerLevels[inv[p].roomId]

\* The mutating room actions.
MutatingOps ==
    {"sendEvent", "sendStateEvent", "sendTyping", "sendReadReceipt",
     "setPowerLevel", "invite", "kick", "ban", "unban"}

\* C15: for every mutating room action, if the final transport call fails
\* with M_FORBIDDEN, ensureJoined is run with the cache ignored and the
\* transport call is retried once: the invocation never ends on the
\* M_FORBIDDEN of its first transport call.
C15_ForbiddenIsRetried ==
    \A p \in Procs :
        LET rec == inv[p]
            sends == {i \in 1..Len(rec.trace) : rec.trace[i] = "send"}
        IN  ~(/\ rec.op \in MutatingOps
              /\ Cardinality(sends) = 1
              /\ Len(rec.calls) > 0
              /\ rec.calls[Len(rec.calls)] = Entry("send", "M_FORBIDDEN")
              /\ rec.pc = "done")

\* C16: after createRoom succeeds for room R, the store holds for R the
\* content it held before if there was one, else a record with the creating
\* identity at level 100, state_default 50, users_default 0 and
\* events_default 0; createRoom issues no joinRoom and no power-level check
\* before the create call.
C16_CreateRoomFakesPowerLevels ==
    [][\A p \in Procs :
          /\ (/\ inv[p].pc = "createRoom"
              /\ inv'[p].pc = "done"
              /\ inv'[p].result = "resolved")
             => LET R == inv'[p].roomId
                    creatorId == IF inv[p].createAsClient THEN SubjectId
                                 ELSE IF sameClient THEN SubjectId ELSE BotId
                IN  IF powerLevels[R] # Undefined
                    THEN StoredContent'[R] = StoredContent[R]
                    ELSE /\ powerLevels'[R] # Undefined
                         /\ LET c == heap'[powerLevels'[R]]
                            IN  /\ c.users = (creatorId :> 100)
                                /\ c.state_default = 50
                                /\ c.users_default = 0
                                /\ c.events_default = 0
                                /\ c.events = EmptyMap
          /\ inv'[p].op = "createRoom"
             => /\ \A i \in 1..Len(inv'[p].calls) :
                      inv'[p].calls[i].call \in {"register", "createRoom"}
                /\ inv'[p].trace = <<>>
                /\ inv'[p].pc \in {"register", "createRoom", "done"}]_vars

C16_Witness ==
    \E p \in Procs :
        /\ inv[p].op = "createRoom"
        /\ inv[p].pc = "done"
        /\ inv[p].result = "resolved"
        /\ ~inv[p].createAsClient
        /\ ~sameClient
        /\ powerLevels[inv[p].roomId] # Undefined
        /\ heap[powerLevels[inv[p].roomId]].users = (BotId :> 100)
        /\ heap[powerLevels[inv[p].roomId]].events = EmptyMap

\* C17: for every invite list given, the invite list handed to the
\* createRoom call of the transport never holds the identity that creates
\* the room; and when the privileged identity creates the room and is not
\* the subject, the list holds the subject.
C17_NoSelfInvite ==
    \A p \in Procs :
        inv[p].pc = "createRoom" =>
            LET creatorId == IF inv[p].createAsClient THEN SubjectId
                             ELSE IF sameClient THEN SubjectId ELSE BotId
                handed == IF inv[p].invite = <<>> THEN <<>>
                          ELSE inv[p].invite[1]
                Holds(x) == \E i \in 1..Len(handed) : handed[i] = x
            IN  /\ ~Holds(creatorId)
                /\ (~inv[p].createAsClient /\ ~sameClient) => Holds(SubjectId)

\* In this step get(key) is called; it serves the entry or invokes
\* requestFunc.
GetStep(key) ==
    /\ last'.key = key
    /\ \/ last'.kind = "hit" /\ last' # last
       \/ last'.kind = "miss" /\ invocations' = invocations + 1

\* C18: an entry is served by get only while now - ts < ttl, and then
\* requestFunc is not invoked; whenever now - ts >= ttl the entry is
\* taken for absent, removed, and requestFunc is invoked again.
C18_ServedOnlyWhileYoungerThanTtl ==
    [][\A k \in CacheKeys :
          (GetStep(k) /\ MapHas(requestContent, k))
          => LET e == MapGet(requestContent, k)
             IN  IF now - e.ts < ttl
                 THEN /\ last'.kind = "hit"
                      /\ last'.content = e.content
                      /\ invocations' = invocations
                      /\ requestContent' = requestContent
                 ELSE /\ last'.kind = "miss"
                      /\ invocations' = invocations + 1
                      /\ ~MapHas(requestContent', k)]_vars

\* C19: in every reachable state of the request cache, whatever the
\* interleaving of the calls of get and of the settlements of the requests
\* (several of them in flight, for one key or for several), the number of
\* the stored entries is at most maxSize.
C19_SizeAtMostMaxSize ==
    /\ Len(requestContent) <= maxSize
    /\ \A i, j \in 1..Len(requestContent) :
          requestContent[i].key = requestContent[j].key => i = j

C19_Witness ==
    /\ Len(requestContent) = maxSize
    /\ last.kind = "set"
    /\ last.oldKey # "none"
    /\ \E r \in pending : r.key = last.key

\* C20: when storing a result pushes the cache over maxSize, the entry
\* that is evicted is the one whose key was inserted earliest among the
\* stored ones, whichever entries were served last; the entry just stored
\* is never the one evicted.
C20_EvictsEarliestInserted ==
    [][(last' # last /\ last'.kind = "set")
       => LET k == last'.key
              entry == [key |-> k, ts |-> now, content |-> last'.content]
          IN  /\ MapHas(requestContent', k)
              /\ MapGet(requestContent', k) = entry
              /\ last'.oldKey # k
              /\ IF ~MapHas(requestContent, k)
                    /\ Len(requestContent) + 1 > maxSize
                 THEN /\ last'.oldKey = requestContent[1].key
                      /\ requestContent' =
                            Append(Tail(requestContent), entry)
                 ELSE /\ last'.oldKey = "none"
                      /\ \A i \in 1..Len(requestContent) :
                            /\ requestContent'[i].key = requestContent[i].key
                            /\ requestContent[i].key # k
                                  => requestContent'[i] = requestContent[i]
      ]_vars

C20_Witness ==
    /\ last.kind = "set"
    /\ last.oldKey # "none"
    /\ last.oldKey = lastHit
    /\ MapHas(requestContent, last.key)
    /\ requestContent[1].ts < now

\* C21 as stated: if the request function of get(key) rejects, the
\* rejection reaches the caller and no entry for key exists in the cache
\* afterwards.
C21_NoEntryAfterRejection ==
    last.kind = "rejected" =>
        /\ last.error \in RequestErrors
        /\ ~MapHas(requestContent, last.key)

\* C21 as amended: if the request function of get(key) rejects, the
\* rejection reaches the caller as it is and the call stores nothing: the
\* entry of key, stale or not, went when get was called, and the entries of
\* the other keys are changed neither then nor at the rejection; so no
\* entry for key exists afterwards unless another request for key has
\* resolved in between, and a get(key) that finds none invokes the request
\* function again.
C21_RejectionStoresNothing ==
    [][/\ (last' # last /\ last'.kind = "rejected")
          => /\ last'.error \in RequestErrors
             /\ requestContent' = requestContent
             /\ \E r \in pending :
                   /\ r.id = last'.content
                   /\ r.key = last'.key
                   /\ pending' = pending \ {r}
       /\ \A k \in CacheKeys :
             (GetStep(k) /\ last'.kind = "miss")
             => /\ ~MapHas(requestContent', k)
                /\ requestContent' =
                      SelectSeq(requestContent, LAMBDA e : e.key # k)
                /\ [id |-> invocations', key |-> k] \in pending'
       /\ \A k \in CacheKeys :
             (GetStep(k) /\ ~MapHas(requestContent, k))
             => /\ last'.kind = "miss"
                /\ invocations' = invocations + 1]_vars

C21_Witness ==
    /\ last.kind = "rejected"
    /\ last.content = 3
    /\ Len(requestContent) = 1
    /\ requestContent[1].content = 2
    /\ ~MapHas(requestContent, last.key)

\* C22: the cache does not coalesce requests: every call of get that finds
\* no fresh entry invokes the request function, also when requests for the
\* same key are in flight; n such calls for one key before any of them
\* settles make n invocations.
C22_OneRequestPerMiss ==
    /\ last.misses = invocations
    /\ \A r1, r2 \in pending : r1.id = r2.id => r1 = r2
    /\ \A r \in pending : r.id \in 1..invocations

C22_Witness ==
    /\ invocations = 3
    /\ \E k \in CacheKeys :
          /\ pending = {[id |-> i, key |-> k] : i \in 1..3}
          /\ ~MapHas(requestContent, k)

\* The number of transport sends an invocation has issued.
Sends(rec) == Cardinality({i \in 1..Len(rec.trace) : rec.trace[i] = "send"})

\* The outcome of the transport call that settled in this step of slot p.
Settled(p) == inv'[p].calls[Len(inv[p].calls)].res

\* C26: for sendEvent and sendStateEvent the transport send is invoked at
\* most twice per invocation; the second send happens only if the first
\* failed with M_FORBIDDEN and the forced ensureJoined then resolved; a
\* first failure of another class, and any failure of the second send,
\* reaches the caller unmodified with no further join or send.
C26_AtMostOneRetry ==
    [][\A p \in Procs :
          inv'[p].op \in {"sendEvent", "sendStateEvent"} =>
            /\ Sends(inv'[p]) <= 2
            /\ (Sends(inv[p]) = 1 /\ Sends(inv'[p]) = 2)
               => /\ inv[p].pc = "joined"
                  /\ inv[p].ignoreCache
                  /\ inv[p].error = "M_FORBIDDEN"
                  /\ inv[p].trace[Len(inv[p].trace)] = "ensureJoined.ok"
                  /\ inv'[p].pc = "send2"
            /\ (/\ inv[p].pc = "send1"
                /\ inv'[p].pc # "send1"
                /\ inv[p].op = inv'[p].op
                /\ Len(inv'[p].calls) >= Len(inv[p].calls)
                /\ Settled(p) \in Errcodes \ {"M_FORBIDDEN"})
               => /\ inv'[p].pc = "done"
                  /\ inv'[p].result = "rejected"
                  /\ inv'[p].error = Settled(p)
                  /\ inv'[p].trace = inv[p].trace
                  /\ Len(inv'[p].calls) = Len(inv[p].calls)
            /\ (inv[p].pc = "send2" /\ inv'[p].pc # "send2")
               => /\ inv'[p].pc = "done"
                  /\ inv'[p].trace = inv[p].trace
                  /\ Len(inv'[p].calls) = Len(inv[p].calls)
                  /\ IF Settled(p) = "ok" THEN inv'[p].result = "resolved"
                     ELSE /\ inv'[p].result = "rejected"
                          /\ inv'[p].error = Settled(p)]_vars

C26_Witness ==
    \E p \in Procs :
        /\ inv[p].op = "sendStateEvent"
        /\ inv[p].pc = "done"
        /\ inv[p].result = "rejected"
        /\ inv[p].error = "M_FORBIDDEN"
        /\ Sends(inv[p]) = 2

\* The positions of an invocation at which _ensureJoined waits for a
\* transport call.
JoinPcs ==
    {"register", "joinRoom1", "invite2", "joinRoom2", "botJoinRoom3",
     "invite3", "joinRoom3"}

\* Slot p is inside an _ensureJoined invocation that has not settled.
InEnsureJoined(p) ==
    inv[p].pc \in JoinPcs /\ inv[p].op \notin RegisteredOnlyOps

\* The number of calls of one kind among the calls of an invocation.
Count(calls, kinds) ==
    Cardinality({i \in 1..Len(calls) : calls[i].call \in kinds})

\* The number of times the promise of _ensureJoined was settled.
Settlements(rec) ==
    Cardinality({i \in 1..Len(rec.trace) :
                    rec.trace[i] \in {"ensureJoined.ok", "ensureJoined.fail"}})

\* The calls of slot p are those of its current _ensureJoined invocation.
HoldsJoinCalls(p) ==
    \/ InEnsureJoined(p)
    \/ inv[p].pc = "joined"
    \/ /\ inv[p].pc = "done"
       /\ Len(inv[p].trace) > 0
       /\ inv[p].trace[Len(inv[p].trace)] = "ensureJoined.fail"

\* C27: every _ensureJoined invocation settles exactly once provided every
\* transport call settles; it issues at most one register, three joinRoom
\* calls of the subject, two invites and one joinRoom of the bot, and no
\* transport call after a joinRoom of the subject has succeeded.
C27_SettlesOnceWithinBudget ==
    /\ [](\A p \in Procs :
              /\ HoldsJoinCalls(p) =>
                   LET calls == inv[p].calls
                   IN  /\ Count(calls, {"register"}) <= 1
                       /\ Count(calls, {"joinRoom"}) <= 3
                       /\ Count(calls, {"invite", "bot.invite"}) <= 2
                       /\ Count(calls, {"bot.joinRoom"}) <= 1
                       /\ \A i \in 1..Len(calls) :
                              calls[i] = Entry("joinRoom", "ok")
                              => i = Len(calls) /\ inv[p].pc = "joined"
              /\ inv[p].op \notin RegisteredOnlyOps =>
                   Settlements(inv[p]) =
                       IF inv[p].op = "none" THEN 0
                       ELSE (IF inv[p].ignoreCache THEN 1 ELSE 0)
                            + (IF InEnsureJoined(p) THEN 0 ELSE 1))
    /\ \A p \in SeqProcs : InEnsureJoined(p) ~> ~InEnsureJoined(p)

C27_Witness ==
    \E p \in Procs :
        /\ inv[p].pc = "joined"
        /\ Count(inv[p].calls, {"register"}) = 1
        /\ Count(inv[p].calls, {"joinRoom"}) = 3
        /\ Count(inv[p].calls, {"bot.invite"}) = 2
        /\ Count(inv[p].calls, {"bot.joinRoom"}) = 1
        /\ Settlements(inv[p]) = 1

\* C28: _ensureJoined writes no membership other than join, and only in the
\* step in which a joinRoom of the subject succeeded; every other step of an
\* invocation, a rejection included, leaves the recorded membership as it
\* was, so a forced refresh that fails keeps a recorded join and the fast
\* path stays open to a later call.
C28_WritesOnlyJoinAfterJoinRoom ==
    [][\A p \in Procs :
          inv'[p] # inv[p] =>
            /\ (/\ inv[p].pc \in {"joinRoom1", "joinRoom2", "joinRoom3"}
                /\ Settled(p) = "ok")
               => /\ membershipStates'[inv[p].roomId] = "join"
                  /\ inv'[p].pc = "joined"
            /\ membershipStates' # membershipStates
               => /\ inv[p].pc \in {"joinRoom1", "joinRoom2", "joinRoom3"}
                  /\ Settled(p) = "ok"
                  /\ membershipStates' =
                        [membershipStates EXCEPT ![inv[p].roomId] = "join"]
            /\ (InEnsureJoined(p) /\ inv'[p].pc = "done")
               => /\ inv'[p].result = "rejected"
                  /\ membershipStates' = membershipStates
                  /\ (membershipStates[inv[p].roomId] = "join"
                      => FastPath(inv[p].roomId, FALSE)')]_vars

C28_Witness ==
    \E p \in Procs :
        /\ inv[p].pc = "done"
        /\ inv[p].ignoreCache
        /\ inv[p].error = "Failed to join room"
        /\ membershipStates[inv[p].roomId] = "join"
        /\ FastPath(inv[p].roomId, FALSE)

\* _ensureHasPowerLevelFor(roomId, eventType), called now with no invocation
\* in between, finds a content in the store (no getStateEvent) that shows
\* the subject at the required level (no setPowerLevel).
NeedsNoTransport(roomId, eventType) ==
    /\ getPowerLevelContent(roomId) # Undefined
    /\ LET content == heap[getPowerLevelContent(roomId)]
       IN  ~(RequiredLevel(content, eventType) > PowerLevel(content, userId))

\* In this step the escalation of slot p succeeds.
EscalationStep(p) ==
    inv[p].pc = "setPowerLevel" /\ inv'[p].pc = "send1"

\* C30 as stated: after a successful escalation for (R, T) a following
\* _ensureHasPowerLevelFor(R, T) issues neither getStateEvent nor setPowerLevel.
C30_EscalationIsIdempotent ==
    [][\A p \in Procs :
          EscalationStep(p)
          => NeedsNoTransport(inv[p].roomId, inv[p].eventType)']_vars

\* C30: a successful escalation patches the content the invocation read.
\* If the store still holds that content, it shows the subject at the
\* required level and a following _ensureHasPowerLevelFor(R, T) issues
\* neither getStateEvent nor setPowerLevel; if a notification replaced it
\* meanwhile, the store is left as notified.
C30_IdempotentOnOwnContent ==
    [][\A p \in Procs :
          EscalationStep(p) =>
            LET roomId == inv[p].roomId
                snap == inv[p].snap
            IN  /\ CurrentLevel(heap'[snap], userId) = inv[p].required[1]
                /\ powerLevels' = powerLevels
                /\ \A o \in DOMAIN heap : o # snap => heap'[o] = heap[o]
                /\ getPowerLevelContent(roomId) = snap
                   => NeedsNoTransport(roomId, inv[p].eventType)']_vars

C30_Witness ==
    \E p \in Procs :
        /\ inv[p].pc = "send1"
        /\ HasCall(inv[p], "bot.setPowerLevel")
        /\ getPowerLevelContent(inv[p].roomId) = inv[p].snap
        /\ inv[p].required # <<>>
        /\ inv[p].required[1] > 0
        /\ CurrentLevel(heap[inv[p].snap], userId) = inv[p].required[1]
        /\ NeedsNoTransport(inv[p].roomId, inv[p].eventType)

\* C29: under any interleaving of concurrent _ensureHasPowerLevelFor
\* invocations on one room, every setPowerLevel issued for the subject
\* carries a level at least the one the store records for the subject when
\* it is issued, and once an invocation has resolved for required level L
\* the level recorded for the subject stays at least L.
C29_EscalationNeverLowers ==
    [][\A p \in Procs :
          /\ (inv[p].pc # "setPowerLevel" /\ inv'[p].pc = "setPowerLevel")
             => inv'[p].required[1] >=
                   CurrentLevel(heap'[powerLevels'[inv'[p].roomId]], userId)
          /\ (inv'[p].pc = "send1" /\ inv'[p].required # <<>>)
             => /\ powerLevels'[inv'[p].roomId] # Undefined
                /\ CurrentLevel(heap'[powerLevels'[inv'[p].roomId]], userId)
                      >= inv'[p].required[1]]_vars

\* In this step a joinRoom of the subject succeeds in slot p.
JoinSucceeds(p) ==
    /\ inv[p].pc \in {"joinRoom1", "joinRoom2", "joinRoom3"}
    /\ inv'[p].pc = "joined"

\* C24: with the default store the membership recorded for the subject in a
\* room is set by each membership notification for the subject in that room
\* to the membership it carries and by each successful join to join, and by
\* nothing else: a notification whose state key is another user leaves it
\* alone. With a store given by the caller no notification changes what
\* _ensureJoined and _ensureHasPowerLevelFor read.
C24_StoreFollowsNotifications ==
    [][/\ \A e \in MemberEvents \cup PowerLevelEvents :
            onEvent(e) =>
              /\ membershipStates' =
                    IF /\ ~customStore
                       /\ e.type = "m.room.member"
                       /\ e.state_key = userId
                    THEN [membershipStates EXCEPT ![e.room_id] =
                             e.content.membership]
                    ELSE membershipStates
              /\ customStore => StoreView' = StoreView
       /\ \A r \in Rooms :
            membershipStates'[r] # membershipStates[r] =>
              \/ /\ ~customStore
                 /\ \E e \in MemberEvents :
                       /\ e.state_key = userId
                       /\ e.room_id = r
                       /\ e.content.membership = membershipStates'[r]
                       /\ onEvent(e)
              \/ \E p \in Procs :
                    /\ JoinSucceeds(p)
                    /\ inv[p].roomId = r
                    /\ membershipStates'[r] = "join"]_vars

C24_Witness ==
    \E p \in Procs :
        /\ ~customStore
        /\ inv[p].pc = "joined"
        /\ inv[p].calls # <<>>
        /\ inv[p].calls[Len(inv[p].calls)] = Entry("joinRoom", "ok")
        /\ membershipStates[inv[p].roomId] = "leave"

\* C23: a read with useCache = true that misses its cache sends the
\* transport call that the same read sends with useCache = false:
\* getProfileInfo(userId, info), roomState(roomId), fetchRoomEvent(roomId,
\* eventId); hence it returns the same result.
C23_MissCallsTheDirectOperation ==
    \A p \in Procs :
        (inv[p].op \in ReadOps /\ inv[p].pc = "read")
        => inv[p].sent = DirectCall(inv[p].op, inv[p].args)

\* C25: the maximum size of each request cache is caching.size when one is
\* given and 1024 otherwise, whatever caching.ttl is.
C25_MaxSizeIsConfiguredSize ==
    \A n \in CacheNames :
        requestCaches[n].maxSize =
            IF caching.size = <<>> THEN DEFAULT_CACHE_SIZE ELSE caching.size[1]

====
